---- MODULE Spec2Model ----
(***************************************************************************)
(* A model of the noise functions of gsoc-2025-gemini-robustness:          *)
(*   src/src/CharacterNoiseFunctions.py   add_char_noise                   *)
(*   src/src/ImageNoiseFunctions.py       _load_image, apply_gaussian_blur,*)
(*                                        apply_occlusion                  *)
(*                                                                         *)
(* Every thread owns one call frame (the locals of the function it is      *)
(* running).  The module-level dictionaries NOISE_LEVEL_PERCENTAGES and    *)
(* ALPHABETS are ordinary (mutable) Python dicts, hence state variables.   *)
(* A str is a sequence of one-character strings; Python index j is         *)
(* position j+1 of the sequence.  Fractions are held in hundredths         *)
(* (0.05 -> 5), which agrees with the float arithmetic of the source for   *)
(* every length and dimension the model reaches.                           *)
(***************************************************************************)
EXTENDS Integers, Sequences, FiniteSets, TLC

VARIABLES
    NOISE_LEVEL_PERCENTAGES,  \* CharacterNoiseFunctions.py:21  dict tier name -> hundredths
    ALPHABETS,                \* CharacterNoiseFunctions.py:33  dict language -> str
    frame,                    \* frame[t]: locals of the call thread t is in
    heap,                     \* heap[t]: the ndarray objects thread t can reach
    threads                   \* the threads that issue calls

vars == <<NOISE_LEVEL_PERCENTAGES, ALPHABETS, frame, heap, threads>>

----------------------------------------------------------------------------
(* Bounds *)

MaxLen == 12          \* longest text of the corpus
MaxDim == 4           \* largest image height / width of the gallery
ConcMaxLen == 4       \* length of the non-empty text when two threads interleave
ConcMaxDim == 1       \* image height / width when two threads interleave
MaxFaults == 1        \* most exceptions raised inside one walk

Threads == {"t1", "t2"}

----------------------------------------------------------------------------
(* Strings *)

Uppers == <<"A","B","C","D","E","F","G","H","I","J","K","L","M",
            "N","O","P","Q","R","S","T","U","V","W","X","Y","Z">>
Lowers == <<"a","b","c","d","e","f","g","h","i","j","k","l","m",
            "n","o","p","q","r","s","t","u","v","w","x","y","z">>

\* the characters str.lower() changes
UpperSet == {Uppers[j] : j \in 1..Len(Uppers)}

\* str.lower() on one character
LowerChar(ch) ==
    IF ch \in UpperSet
    THEN Lowers[CHOOSE j \in 1..Len(Uppers) : Uppers[j] = ch]
    ELSE ch

\* str.lower()
Lower(s) == [j \in 1..Len(s) |-> LowerChar(s[j])]

\* text[j] for a Python index j
At(s, j) == s[j + 1]

\* j is a valid (non-negative) index of s
InRange(s, j) == j >= 0 /\ j < Len(s)

\* "".join(l) for a list l of one-character strings
Join(l) == [j \in 1..Len(l) |-> l[j]]

Min(a, b) == IF a < b THEN a ELSE b
Max(a, b) == IF a > b THEN a ELSE b

RECURSIVE SortedSeq(_)
\* sorted(S) for a set S of integers
SortedSeq(S) ==
    IF S = {} THEN <<>>
    ELSE LET m == CHOOSE x \in S : \A y \in S : x <= y
         IN  <<m>> \o SortedSeq(S \ {m})

Range(s) == {s[j] : j \in 1..Len(s)}

----------------------------------------------------------------------------
(* Configuration tables, CharacterNoiseFunctions.py:21-45 *)

LOW == <<"l","o","w">>
MEDIUM == <<"m","e","d","i","u","m">>
HIGH == <<"h","i","g","h">>

ENGLISH == <<"e","n","g","l","i","s","h">>
HINDI == <<"h","i","n","d","i">>
IGBO == <<"i","g","b","o">>

\* NOISE_LEVEL_PERCENTAGES as the module defines it, in hundredths
InitNoiseLevelPercentages == (LOW :> 5) @@ (MEDIUM :> 15) @@ (HIGH :> 25)

\* ALPHABETS as the module defines it; each alphabet is cut to its leading
\* characters (string.ascii_letters starts "ab", the Devanagari alphabet
\* with the vowels A and AA, the Igbo alphabet with "ab")
InitAlphabets ==
    (ENGLISH :> <<"a", "b">>) @@ (HINDI :> <<"A_deva", "AA_deva">>) @@ (IGBO :> <<"a", "b">>)

\* the four operations of add_char_noise
Operations == {"substitute", "delete", "insert", "swap"}

----------------------------------------------------------------------------
(* Arguments the callers pass *)

\* tier names: the registered ones, case variants, and unregistered ones
TierNames ==
    { LOW, MEDIUM, HIGH,
      <<"L","o","w">>, <<"M","E","D","I","U","M">>, <<"H","i","g","h">>,
      <<"h","u","g","e">>, <<>> }

\* language names: registered, case variants, unregistered
LanguageNames ==
    { ENGLISH, HINDI, IGBO,
      <<"E","n","g","l","i","s","h">>, <<"I","G","B","O">>,
      <<"f","r","e","n","c","h">> }

TextChars == <<"a", "b", "c", "d", "e">>

\* the text of length n of the corpus: "abcdeabcde..." cut to n characters
SampleText(n) == [j \in 1..n |-> TextChars[((j - 1) % Len(TextChars)) + 1]]

Texts(maxlen) == {SampleText(n) : n \in 0..maxlen}

\* the two texts of the interleaved calls: the empty one and a short one
ConcTexts == {SampleText(0), SampleText(ConcMaxLen)}

\* the texts handed to add_char_noise: every length up to MaxLen when a
\* single thread issues the calls
corpus == IF Cardinality(threads) > 1 THEN ConcTexts ELSE Texts(MaxLen)

\* a str argument, or an argument that is not a str
StrArg(s) == [isstr |-> TRUE, chars |-> s]
NonStrArg == [isstr |-> FALSE, chars |-> <<>>]

----------------------------------------------------------------------------
(* Call frames *)

NoFrame ==
    [ pc |-> "idle", fn |-> "none", exc |-> "none", rng_used |-> FALSE,
      \* add_char_noise
      text |-> StrArg(<<>>), noise_level |-> <<>>, language |-> <<>>,
      percentage |-> 0, alphabet |-> <<>>, num_chars_to_modify |-> 0,
      indices_to_modify |-> <<>>, modifications |-> <<>>,
      new_text_list |-> <<>>, processed_indices |-> {}, i |-> 0,
      result |-> <<>>,
      \* apply_gaussian_blur / apply_occlusion
      img_input |-> [kind |-> "none"], blur_level |-> <<>>, occlusion_level |-> <<>>,
      img |-> "none", img_height |-> 0, img_width |-> 0, sigma |-> 0, ratio |-> 0,
      patch_h |-> 0, patch_w |-> 0, max_y |-> 0, max_x |-> 0,
      start_y |-> 0, start_x |-> 0, end_y |-> 0, end_x |-> 0,
      mean_color |-> <<>>, returned_obj |-> "none",
      \* history of the drawing: the pixels cv.rectangle wrote
      written |-> {},
      \* history of the walk: where each emitted character came from
      \* (an original index, or -1 for a drawn character), the indices
      \* text was subscripted with, and the operation applied per index
      src_of |-> <<>>, read_idx |-> {}, applied |-> <<>>,
      \* the number of warnings line 174 printed
      warnings |-> 0,
      \* history of the walk: how often each index was the position of the
      \* loop or the neighbour a swap consumed
      visits |-> <<>> ]

Finished == {"returned", "raised"}

Put(t, f) == frame' = [frame EXCEPT ![t] = f]

Raise(f, e) == [f EXCEPT !.pc = "raised", !.exc = e]

----------------------------------------------------------------------------
(* add_char_noise, CharacterNoiseFunctions.py:50-180 *)

\* line 101 rounding up instead of truncating
NumCharsToModifyCeil(percentage, n) == (percentage * n + 99) \div 100

\* line 101 rounding to nearest instead of truncating
NumCharsToModifyRound(percentage, n) == (percentage * n + 50) \div 100

\* int(percentage * original_text_len), line 101
NumCharsToModify(percentage, n) == (percentage * n) \div 100

\* line 87 without the call of lower()
NormalizeLevelExact(level) == level

\* noise_level.lower(), line 87
NormalizeLevel(level) == Lower(level)

\* line 160 demanding two more characters
SwapHasNextOffByOne(i, n) == i + 2 < n

\* line 160 admitting the final index
SwapHasNextInclusive(i, n) == i + 1 <= n

\* line 166 stepping over one character only
SwapAdvanceByOne(i) == i + 1

\* i += 2, line 166
SwapAdvance(i) == i + 2

\* one more visit of each index of J
Bump(visits, J) == [j \in DOMAIN visits |-> IF j \in J THEN visits[j] + 1 ELSE visits[j]]

\* the guard of the swap branch, line 160
SwapHasNext(i, n) == i + 1 < n

\* a caller binds the arguments of add_char_noise(text, noise_level, language)
CallAddCharNoise(t) ==
    /\ frame[t].pc = "idle"
    /\ \E text \in {StrArg(s) : s \in corpus} \cup {NonStrArg},
          level \in TierNames, language \in LanguageNames :
          Put(t, [NoFrame EXCEPT !.pc = "entry", !.fn = "add_char_noise",
                                 !.text = text, !.noise_level = level,
                                 !.language = language])
    /\ UNCHANGED <<NOISE_LEVEL_PERCENTAGES, ALPHABETS, heap, threads>>

\* lines 79-105: type check, empty text, validation, modification count
ValidatedFrame(f) ==
    LET n == Len(f.text.chars)
        level == NormalizeLevel(f.noise_level)
        language == Lower(f.language)
    IN  IF ~f.text.isstr THEN Raise(f, "TypeError")
        ELSE IF n = 0 THEN [f EXCEPT !.pc = "returned", !.result = <<>>]
        ELSE IF level \notin DOMAIN NOISE_LEVEL_PERCENTAGES
             THEN Raise([f EXCEPT !.noise_level = level], "ValueError")
        ELSE IF language \notin DOMAIN ALPHABETS
             THEN Raise([f EXCEPT !.noise_level = level, !.language = language,
                                  !.percentage = NOISE_LEVEL_PERCENTAGES[level]],
                        "ValueError")
        ELSE LET g == [f EXCEPT !.noise_level = level, !.language = language,
                                !.percentage = NOISE_LEVEL_PERCENTAGES[level],
                                !.alphabet = ALPHABETS[language]]
                 k == NumCharsToModify(g.percentage, n)
             IN  IF Len(g.alphabet) = 0 THEN Raise(g, "ValueError")
                 ELSE IF k = 0
                      THEN [g EXCEPT !.pc = "returned", !.num_chars_to_modify = k,
                                     !.result = g.text.chars]
                      ELSE [g EXCEPT !.pc = "sample", !.num_chars_to_modify = k]

\* lines 87-90 that also store the name as spelled by the caller in the table
AddCharNoiseValidateCaching(t) ==
    /\ frame[t].pc = "entry"
    /\ frame[t].fn = "add_char_noise"
    /\ Put(t, ValidatedFrame(frame[t]))
    /\ NOISE_LEVEL_PERCENTAGES' =
          IF frame[t].text.isstr /\ Len(frame[t].text.chars) > 0
             /\ Lower(frame[t].noise_level) \in DOMAIN NOISE_LEVEL_PERCENTAGES
          THEN (frame[t].noise_level :> NOISE_LEVEL_PERCENTAGES[Lower(frame[t].noise_level)])
               @@ NOISE_LEVEL_PERCENTAGES
          ELSE NOISE_LEVEL_PERCENTAGES
    /\ UNCHANGED <<ALPHABETS, heap, threads>>

AddCharNoiseValidate(t) ==
    /\ frame[t].pc = "entry"
    /\ frame[t].fn = "add_char_noise"
    /\ Put(t, ValidatedFrame(frame[t]))
    /\ UNCHANGED <<NOISE_LEVEL_PERCENTAGES, ALPHABETS, heap, threads>>

\* line 108: sorted(random.sample(range(n), k))
SampleIndices(t) ==
    LET f == frame[t]
        n == Len(f.text.chars)
    IN  /\ f.pc = "sample"
        /\ \E S \in SUBSET (0..(n - 1)) :
              /\ Cardinality(S) = f.num_chars_to_modify
              /\ Put(t, [f EXCEPT !.pc = "assign", !.rng_used = TRUE,
                                  !.indices_to_modify = SortedSeq(S)])
        /\ UNCHANGED <<NOISE_LEVEL_PERCENTAGES, ALPHABETS, heap, threads>>

\* lines 111-120: one random.choice(operations) per selected index, then
\* the empty output list, the empty processed set and i = 0
AssignOperations(t) ==
    LET f == frame[t]
    IN  /\ f.pc = "assign"
        /\ \E m \in [Range(f.indices_to_modify) -> Operations] :
              Put(t, [f EXCEPT !.pc = "walk", !.rng_used = TRUE,
                               !.modifications = m,
                               !.new_text_list = <<>>, !.processed_indices = {},
                               !.i = 0,
                               !.visits = [j \in 0..(Len(f.text.chars) - 1) |-> 0]])
        /\ UNCHANGED <<NOISE_LEVEL_PERCENTAGES, ALPHABETS, heap, threads>>

\* the loop is at an index it has to look at (line 121)
AtIndex(f) == f.pc = "walk" /\ f.i < Len(f.text.chars)

\* the planned operation at the current index is op (lines 122-128)
Planned(f, op) ==
    /\ AtIndex(f)
    /\ f.i \notin f.processed_indices
    /\ f.i \in DOMAIN f.modifications
    /\ f.modifications[f.i] = op

\* new_text_list.append(ch), with the origin of ch
Emit(f, ch, src) ==
    [f EXCEPT !.new_text_list = Append(@, ch), !.src_of = Append(@, src)]

\* lines 122-131: an index a swap already handled is passed over, an index
\* without a planned modification is copied
WalkCopy(t) ==
    LET f == frame[t]
    IN  /\ AtIndex(f)
        /\ f.i \in f.processed_indices \/ f.i \notin DOMAIN f.modifications
        /\ Put(t, IF f.i \in f.processed_indices
                  THEN [f EXCEPT !.i = @ + 1, !.visits = Bump(@, {f.i})]
                  ELSE [Emit(f, At(f.text.chars, f.i), f.i)
                          EXCEPT !.i = @ + 1, !.read_idx = @ \cup {f.i},
                                 !.visits = Bump(@, {f.i})])
        /\ UNCHANGED <<NOISE_LEVEL_PERCENTAGES, ALPHABETS, heap, threads>>

\* lines 135-138
WalkDelete(t) ==
    LET f == frame[t]
    IN  /\ Planned(f, "delete")
        /\ Put(t, [f EXCEPT !.i = @ + 1, !.applied = (f.i :> "delete") @@ @,
                            !.visits = Bump(@, {f.i})])
        /\ UNCHANGED <<NOISE_LEVEL_PERCENTAGES, ALPHABETS, heap, threads>>

\* The characters the retry loop of lines 143-147 can end with: a draw is
\* repeated while it equals the original character, the alphabet has more
\* than one character and fewer than 5 retries were made, so every
\* character of the alphabet is a possible outcome (the original one after
\* six equal draws, or at once when the alphabet has a single character).
SubstituteOutcomes(alphabet, original_char) ==
    {ch \in Range(alphabet) :
        \E attempts \in 0..5 :
            /\ attempts > 0 => (original_char \in Range(alphabet) /\ Len(alphabet) > 1)
            /\ (ch = original_char /\ Len(alphabet) > 1) => attempts = 5}

\* lines 140-149
WalkSubstitute(t) ==
    LET f == frame[t]
    IN  /\ Planned(f, "substitute")
        /\ \E new_char \in SubstituteOutcomes(f.alphabet, At(f.text.chars, f.i)) :
              Put(t, [Emit(f, new_char, -1)
                        EXCEPT !.i = @ + 1, !.rng_used = TRUE,
                               !.read_idx = @ \cup {f.i},
                               !.applied = (f.i :> "substitute") @@ @,
                               !.visits = Bump(@, {f.i})])
        /\ UNCHANGED <<NOISE_LEVEL_PERCENTAGES, ALPHABETS, heap, threads>>

\* lines 151-156
WalkInsert(t) ==
    LET f == frame[t]
    IN  /\ Planned(f, "insert")
        /\ \E random_char \in Range(f.alphabet) :
              Put(t, [Emit(Emit(f, random_char, -1), At(f.text.chars, f.i), f.i)
                        EXCEPT !.i = @ + 1, !.rng_used = TRUE,
                               !.read_idx = @ \cup {f.i},
                               !.applied = (f.i :> "insert") @@ @,
                               !.visits = Bump(@, {f.i})])
        /\ UNCHANGED <<NOISE_LEVEL_PERCENTAGES, ALPHABETS, heap, threads>>

\* lines 158-171, and lines 172-177 for the IndexError text[i+1] raises
\* when the branch of line 160 is entered without a next character
SwappedFrame(f) ==
    LET s == f.text.chars
        i == f.i
    IN  IF SwapHasNext(i, Len(s))
        THEN IF InRange(s, i + 1)
             THEN [Emit(Emit(f, At(s, i + 1), i + 1), At(s, i), i)
                     EXCEPT !.processed_indices = @ \cup {i + 1},
                            !.i = SwapAdvance(i),
                            !.read_idx = @ \cup {i, i + 1},
                            !.applied = (i :> "swap") @@ @,
                            !.visits = Bump(@, {i, i + 1})]
             ELSE [Emit(f, At(s, i), i)
                     EXCEPT !.i = @ + 1,
                            !.read_idx = @ \cup {i, i + 1},
                            !.applied = (i :> "fault") @@ @,
                            !.visits = Bump(@, {i})]
        ELSE [Emit(f, At(s, i), i)
                EXCEPT !.i = @ + 1,
                       !.read_idx = @ \cup {i},
                       !.applied = (i :> "swap_fallback") @@ @,
                       !.visits = Bump(@, {i})]

WalkSwap(t) ==
    LET f == frame[t]
    IN  /\ Planned(f, "swap")
        /\ Put(t, SwappedFrame(f))
        /\ UNCHANGED <<NOISE_LEVEL_PERCENTAGES, ALPHABETS, heap, threads>>

\* The statements of the operation planned at the current index that can
\* raise, by what was done before them: "start" is a raise before anything
\* is appended (text[i], random.choice, the first append), "second_append"
\* a raise of the second append of Insert (line 155) or Swap (line 164),
\* "mark" a raise of processed_indices.add (line 165).  Delete runs no
\* statement that can raise.
FaultPoints(f) ==
    LET op == f.modifications[f.i]
    IN  IF op = "delete" THEN {}
        ELSE IF op = "substitute" THEN {"start"}
        ELSE IF op = "insert" THEN {"start", "second_append"}
        ELSE IF SwapHasNext(f.i, Len(f.text.chars))
             THEN {"start", "second_append", "mark"}
             ELSE {"start"}

\* the frame when the operation at the current index raises at `point`,
\* Insert having drawn random_char
FrameAtFault(f, point, random_char) ==
    LET s == f.text.chars
        i == f.i
        op == f.modifications[i]
    IN  IF point = "start" THEN f
        ELSE IF op = "insert"
        THEN [Emit(f, random_char, -1) EXCEPT !.rng_used = TRUE]
        ELSE IF point = "second_append"
        THEN [Emit(f, At(s, i + 1), i + 1) EXCEPT !.read_idx = @ \cup {i + 1}]
        ELSE [Emit(Emit(f, At(s, i + 1), i + 1), At(s, i), i)
                EXCEPT !.read_idx = @ \cup {i, i + 1}]

\* lines 172-177: the except block
ExceptBlock(g) ==
    [(IF g.i \notin g.processed_indices
      THEN [Emit(g, At(g.text.chars, g.i), g.i) EXCEPT !.read_idx = @ \cup {g.i}]
      ELSE g)
       EXCEPT !.i = @ + 1, !.warnings = @ + 1,
              !.applied = (g.i :> "fault") @@ @,
              !.visits = Bump(@, {g.i})]

\* lines 134-177: a statement of the planned operation raises an Exception
\* (a MemoryError of append, say) and the except block handles it
WalkFault(t) ==
    LET f == frame[t]
    IN  /\ AtIndex(f)
        /\ f.i \notin f.processed_indices
        /\ f.i \in DOMAIN f.modifications
        /\ f.warnings < MaxFaults
        /\ \E point \in FaultPoints(f), random_char \in Range(f.alphabet) :
              Put(t, ExceptBlock(FrameAtFault(f, point, random_char)))
        /\ UNCHANGED <<NOISE_LEVEL_PERCENTAGES, ALPHABETS, heap, threads>>

\* line 121 (loop exit) and line 180
WalkReturn(t) ==
    LET f == frame[t]
    IN  /\ f.pc = "walk"
        /\ ~(f.i < Len(f.text.chars))
        /\ Put(t, [f EXCEPT !.pc = "returned", !.result = Join(f.new_text_list)])
        /\ UNCHANGED <<NOISE_LEVEL_PERCENTAGES, ALPHABETS, heap, threads>>

----------------------------------------------------------------------------
(* Image buffers *)

\* An ndarray: its shape and, for a 2-D or 3-D array, the channel samples
\* of every pixel (y, x); a 2-D array has one sample per pixel.
Pixels(h, w) == (0..(h - 1)) \X (0..(w - 1))

Channels(shape) == IF Len(shape) = 3 THEN shape[3] ELSE 1

\* the uint8 sample of the gallery image `seed` at (y, x, c): seed 0 is the
\* all-zero image, the other seeds are gradients
Sample(seed, y, x, c) == (seed * (50 * y + 20 * x + 7 * c + 3)) % 256

Ndarray(shape, seed) ==
    [ shape |-> shape,
      px |-> IF Len(shape) \in {2, 3}
             THEN [p \in Pixels(shape[1], shape[2]) |->
                      [c \in 1..Channels(shape) |-> Sample(seed, p[1], p[2], c)]]
             ELSE <<>> ]

Seeds == {0, 1}

\* shapes of the gallery: 2-D and 3-D (three channels) arrays, empty ones
\* included, and a 1-D and a 4-D array
Shapes(maxdim) ==
    {<<h, w>> : h \in 0..maxdim, w \in 0..maxdim}
    \cup {<<h, w, 3>> : h \in 0..maxdim, w \in 0..maxdim}
    \cup {<<3>>, <<1, 1, 1, 1>>}

\* image arguments: an ndarray, a path (missing, undecodable, or a file that
\* decodes to a 3-channel array), or a value of another type
ImageArgs(shapes) ==
    {[kind |-> "ndarray", array |-> Ndarray(sh, seed)] :
        sh \in shapes, seed \in Seeds}
    \cup {[kind |-> "str", exists |-> FALSE, decodable |-> FALSE],
          [kind |-> "str", exists |-> TRUE, decodable |-> FALSE],
          [kind |-> "str", exists |-> TRUE, decodable |-> TRUE,
           array |-> Ndarray(<<1, 1, 3>>, 1)],
          [kind |-> "other"]}

\* the shapes of the interleaved calls: a square 2-D and 3-D array, an
\* empty array and a 1-D array
ConcShapes ==
    {<<ConcMaxDim, ConcMaxDim>>, <<ConcMaxDim, ConcMaxDim, 3>>, <<0, ConcMaxDim>>, <<3>>}

\* the image arguments handed to the image functions: every shape up to
\* MaxDim when a single thread issues the calls
gallery == ImageArgs(IF Cardinality(threads) > 1 THEN ConcShapes ELSE Shapes(MaxDim))

\* img.size
Size(a) ==
    LET RECURSIVE Prod(_)
        Prod(s) == IF s = <<>> THEN 1 ELSE Head(s) * Prod(Tail(s))
    IN  Prod(a.shape)

----------------------------------------------------------------------------
(* _load_image, ImageNoiseFunctions.py:11-30 *)

\* line 20 without the copy
LoadedObjectAliased(obj) == obj

\* line 20: the object _load_image works on for an ndarray argument
LoadedObject(obj) == "copy"

\* The outcome of _load_image for argument arg in heap h: the exception
\* raised ("none" when it returns), the object it returns and the heap
\* after it (img_input.copy() and cv.imread allocate a new array).
LoadImage(arg, h) ==
    LET validated(obj, h2) ==
            IF ~(Len(h2[obj].shape) = 2 \/ Len(h2[obj].shape) = 3)
            THEN [exc |-> "ValueError", img |-> "none", heap |-> h2]
            ELSE IF Size(h2[obj]) = 0
            THEN [exc |-> "ValueError", img |-> "none", heap |-> h2]
            ELSE [exc |-> "none", img |-> obj, heap |-> h2]
    IN  IF arg.kind = "str"
        THEN IF ~arg.exists
             THEN [exc |-> "FileNotFoundError", img |-> "none", heap |-> h]
             ELSE IF ~arg.decodable
             THEN [exc |-> "IOError", img |-> "none", heap |-> h]
             ELSE validated("decoded", ("decoded" :> arg.array) @@ h)
        ELSE IF arg.kind = "ndarray"
        THEN LET obj == LoadedObject("input")
             IN  validated(obj, IF obj = "input" THEN h
                                ELSE (obj :> h["input"]) @@ h)
        ELSE [exc |-> "TypeError", img |-> "none", heap |-> h]

\* a caller binds the arguments of fn(img_input, level); an ndarray argument
\* is the caller's object "input"
CallImage(t, fn) ==
    /\ frame[t].pc = "idle"
    /\ \E arg \in gallery, level \in TierNames :
          /\ Put(t, [NoFrame EXCEPT
                        !.pc = "entry", !.fn = fn,
                        !.img_input = IF arg.kind = "ndarray"
                                      THEN [kind |-> "ndarray"] ELSE arg,
                        !.blur_level = IF fn = "apply_gaussian_blur" THEN level ELSE <<>>,
                        !.occlusion_level = IF fn = "apply_occlusion" THEN level ELSE <<>>])
          /\ heap' = [heap EXCEPT ![t] = IF arg.kind = "ndarray"
                                         THEN ("input" :> arg.array) ELSE <<>>]
    /\ UNCHANGED <<NOISE_LEVEL_PERCENTAGES, ALPHABETS, threads>>

CallGaussianBlur(t) == CallImage(t, "apply_gaussian_blur")

CallOcclusion(t) == CallImage(t, "apply_occlusion")

----------------------------------------------------------------------------
(* apply_gaussian_blur, ImageNoiseFunctions.py:34-68 *)

\* the match statement of lines 54-62: the sigma of a level, 0 for case _
BlurSigma(blur_level) ==
    CASE blur_level = LOW -> 1
      [] blur_level = MEDIUM -> 3
      [] blur_level = HIGH -> 6
      [] OTHER -> 0

\* lines 51-62
GaussianBlurValidate(t) ==
    LET f == frame[t]
        l == LoadImage(f.img_input, heap[t])
    IN  /\ f.pc = "entry"
        /\ f.fn = "apply_gaussian_blur"
        /\ heap' = [heap EXCEPT ![t] = l.heap]
        /\ Put(t, IF l.exc # "none" THEN Raise(f, l.exc)
                  ELSE IF BlurSigma(f.blur_level) = 0
                       THEN Raise([f EXCEPT !.img = l.img], "ValueError")
                       ELSE [f EXCEPT !.pc = "blur", !.img = l.img,
                                      !.sigma = BlurSigma(f.blur_level)])
        /\ UNCHANGED <<NOISE_LEVEL_PERCENTAGES, ALPHABETS, threads>>

\* half-even rounding of num / den to an integer (cvRound of a mean)
RoundDiv(num, den) ==
    LET q == num \div den
        r == num % den
    IN  IF 2 * r > den THEN q + 1
        ELSE IF 2 * r < den THEN q
        ELSE IF q % 2 = 0 THEN q ELSE q + 1

RECURSIVE SumOver(_, _, _)
\* the sum of channel c of the pixels of P in array a
SumOver(a, P, c) ==
    IF P = {} THEN 0
    ELSE LET p == CHOOSE q \in P : TRUE
         IN  a.px[p][c] + SumOver(a, P \ {p}, c)

\* cv.GaussianBlur(img, ksize=(0, 0), sigmaX=sigma, sigmaY=sigma), line 66:
\* a new array of the shape of img.  The kernel OpenCV derives from sigma
\* reaches 3*sigma pixels; the weighted mean it takes over that window is
\* held here as the plain mean over the part of the window inside the image.
GaussianBlur(a, sigma) ==
    LET h == a.shape[1]
        w == a.shape[2]
        window(p) == {q \in Pixels(h, w) :
                        /\ q[1] - p[1] <= 3 * sigma /\ p[1] - q[1] <= 3 * sigma
                        /\ q[2] - p[2] <= 3 * sigma /\ p[2] - q[2] <= 3 * sigma}
    IN  [ shape |-> a.shape,
          px |-> [p \in Pixels(h, w) |->
                    [c \in 1..Channels(a.shape) |->
                        RoundDiv(SumOver(a, window(p), c), Cardinality(window(p)))]] ]

\* lines 66-68
GaussianBlurApply(t) ==
    LET f == frame[t]
    IN  /\ f.pc = "blur"
        /\ heap' = [heap EXCEPT ![t] =
                        ("blurred_img" :> GaussianBlur(heap[t][f.img], f.sigma)) @@ @]
        /\ Put(t, [f EXCEPT !.pc = "returned", !.returned_obj = "blurred_img"])
        /\ UNCHANGED <<NOISE_LEVEL_PERCENTAGES, ALPHABETS, threads>>

----------------------------------------------------------------------------
(* apply_occlusion, ImageNoiseFunctions.py:70-131 *)

\* the match statement of lines 92-100: the area ratio of a level in
\* hundredths, 0 for case _
OcclusionRatio(occlusion_level) ==
    CASE occlusion_level = LOW -> 8
      [] occlusion_level = MEDIUM -> 20
      [] occlusion_level = HIGH -> 40
      [] OTHER -> 0

\* int(np.sqrt(ratio) * dim), lines 104-105: the largest p with
\* p * p <= ratio * dim * dim (ratio in hundredths)
ScaledSide(ratio, dim) ==
    CHOOSE p \in 0..dim :
        /\ 100 * p * p <= ratio * dim * dim
        /\ 100 * (p + 1) * (p + 1) > ratio * dim * dim

\* lines 104-109
PatchSide(ratio, dim) == Max(1, ScaledSide(ratio, dim))

\* lines 120-121: the end coordinate handed to cv.rectangle
EndCoord(start, patch) == start + patch

\* lines 88-114
OcclusionValidate(t) ==
    LET f == frame[t]
        l == LoadImage(f.img_input, heap[t])
        shape == l.heap[l.img].shape
        ratio == OcclusionRatio(f.occlusion_level)
        patch_h == PatchSide(ratio, shape[1])
        patch_w == PatchSide(ratio, shape[2])
    IN  /\ f.pc = "entry"
        /\ f.fn = "apply_occlusion"
        /\ heap' = [heap EXCEPT ![t] = l.heap]
        /\ Put(t, IF l.exc # "none" THEN Raise(f, l.exc)
                  ELSE IF ratio = 0
                       THEN Raise([f EXCEPT !.img = l.img,
                                            !.img_height = shape[1],
                                            !.img_width = shape[2]], "ValueError")
                       ELSE [f EXCEPT !.pc = "place", !.img = l.img,
                                      !.img_height = shape[1], !.img_width = shape[2],
                                      !.ratio = ratio,
                                      !.patch_h = patch_h, !.patch_w = patch_w,
                                      !.max_y = Max(0, shape[1] - patch_h),
                                      !.max_x = Max(0, shape[2] - patch_w)])
        /\ UNCHANGED <<NOISE_LEVEL_PERCENTAGES, ALPHABETS, threads>>

\* lines 116-121: np.random.randint(0, max + 1) for each axis
OcclusionPlace(t) ==
    LET f == frame[t]
    IN  /\ f.pc = "place"
        /\ \E start_y \in 0..f.max_y, start_x \in 0..f.max_x :
              Put(t, [f EXCEPT !.pc = "draw", !.rng_used = TRUE,
                               !.start_y = start_y, !.start_x = start_x,
                               !.end_y = EndCoord(start_y, f.patch_h),
                               !.end_x = EndCoord(start_x, f.patch_w)])
        /\ UNCHANGED <<NOISE_LEVEL_PERCENTAGES, ALPHABETS, heap, threads>>

\* cv.mean(img), line 125, as the uint8 colour cv.rectangle draws with
MeanColor(a) ==
    [c \in 1..Channels(a.shape) |->
        RoundDiv(SumOver(a, Pixels(a.shape[1], a.shape[2]), c),
                 a.shape[1] * a.shape[2])]

\* the pixels of a filled cv.rectangle (thickness=-1) with corners pt1 and
\* pt2: both corners are inclusive, and the drawing is clipped to the image
RectanglePixels(a, x1, y1, x2, y2) ==
    {p \in Pixels(a.shape[1], a.shape[2]) :
        /\ Min(y1, y2) <= p[1] /\ p[1] <= Max(y1, y2)
        /\ Min(x1, x2) <= p[2] /\ p[2] <= Max(x1, x2)}

\* cv.rectangle(img, pt1, pt2, color, thickness=-1), line 129
Rectangle(a, x1, y1, x2, y2, color) ==
    [a EXCEPT !.px = [p \in DOMAIN a.px |->
                        IF p \in RectanglePixels(a, x1, y1, x2, y2)
                        THEN color ELSE a.px[p]]]

\* lines 125-131
OcclusionDraw(t) ==
    LET f == frame[t]
        a == heap[t][f.img]
        mean_color == MeanColor(a)
    IN  /\ f.pc = "draw"
        /\ heap' = [heap EXCEPT ![t][f.img] =
                        Rectangle(a, f.start_x, f.start_y, f.end_x, f.end_y, mean_color)]
        /\ Put(t, [f EXCEPT !.pc = "returned", !.mean_color = mean_color,
                            !.returned_obj = f.img,
                            !.written = RectanglePixels(a, f.start_x, f.start_y,
                                                        f.end_x, f.end_y)])
        /\ UNCHANGED <<NOISE_LEVEL_PERCENTAGES, ALPHABETS, threads>>

----------------------------------------------------------------------------
(* The caller *)

\* the call is over: its locals are gone, and so are the arrays it made
FrameEnds(t) ==
    /\ frame[t].pc \in Finished
    /\ Put(t, NoFrame)
    /\ heap' = [heap EXCEPT ![t] = <<>>]
    /\ UNCHANGED <<NOISE_LEVEL_PERCENTAGES, ALPHABETS, threads>>

----------------------------------------------------------------------------
(* Specifications *)

InitCommon ==
    /\ NOISE_LEVEL_PERCENTAGES = InitNoiseLevelPercentages
    /\ ALPHABETS = InitAlphabets
    /\ frame = [t \in Threads |-> NoFrame]
    /\ heap = [t \in Threads |-> <<>>]

\* one thread, on the full corpus and gallery
Init ==
    /\ InitCommon
    /\ threads = {"t1"}

\* two threads whose calls interleave, on the small corpus and gallery
InitConc ==
    /\ InitCommon
    /\ threads = Threads

\* thread t issues calls
Running(t) == t \in threads

Next ==
    \/ \E t \in Threads : Running(t) /\ CallAddCharNoise(t)
    \/ \E t \in Threads : Running(t) /\ AddCharNoiseValidate(t)
    \/ \E t \in Threads : Running(t) /\ SampleIndices(t)
    \/ \E t \in Threads : Running(t) /\ AssignOperations(t)
    \/ \E t \in Threads : Running(t) /\ WalkCopy(t)
    \/ \E t \in Threads : Running(t) /\ WalkDelete(t)
    \/ \E t \in Threads : Running(t) /\ WalkSubstitute(t)
    \/ \E t \in Threads : Running(t) /\ WalkInsert(t)
    \/ \E t \in Threads : Running(t) /\ WalkSwap(t)
    \/ \E t \in Threads : Running(t) /\ WalkReturn(t)
    \/ \E t \in Threads : Running(t) /\ CallGaussianBlur(t)
    \/ \E t \in Threads : Running(t) /\ GaussianBlurValidate(t)
    \/ \E t \in Threads : Running(t) /\ GaussianBlurApply(t)
    \/ \E t \in Threads : Running(t) /\ CallOcclusion(t)
    \/ \E t \in Threads : Running(t) /\ OcclusionValidate(t)
    \/ \E t \in Threads : Running(t) /\ OcclusionPlace(t)
    \/ \E t \in Threads : Running(t) /\ OcclusionDraw(t)
    \/ \E t \in Threads : Running(t) /\ FrameEnds(t)

Spec == Init /\ [][Next]_vars

SpecConc == InitConc /\ [][Next]_vars

\* the calls of one thread when a statement of an operation may raise
NextFault ==
    \/ Next
    \/ \E t \in Threads : Running(t) /\ WalkFault(t)

SpecFault == Init /\ [][NextFault]_vars

----------------------------------------------------------------------------
(* Properties *)

TextFrame(f) == f.fn = "add_char_noise"

ValidTier(f) == Lower(f.noise_level) \in DOMAIN NOISE_LEVEL_PERCENTAGES

ValidLanguage(f) == Lower(f.language) \in DOMAIN ALPHABETS

\* floor(tierFraction(T) * length(t)) for the tier and text of frame f
Budget(f) ==
    (NOISE_LEVEL_PERCENTAGES[Lower(f.noise_level)] * Len(f.text.chars)) \div 100

\* C1: a call of add_char_noise with a valid tier and a registered language
\* returns a string whose length is at least n - k and at most n + k, where
\* n is the length of the text and k = floor(tierFraction * n).
C1_LengthWithinBudget ==
    \A t \in Threads :
        LET f == frame[t]
        IN  (TextFrame(f) /\ f.pc = "returned" /\ ValidTier(f) /\ ValidLanguage(f))
            => /\ Len(f.result) >= Len(f.text.chars) - Budget(f)
               /\ Len(f.result) <= Len(f.text.chars) + Budget(f)

\* a call returned a text that grew by its whole budget of three
C1_Witness ==
    \E t \in Threads :
        /\ TextFrame(frame[t]) /\ frame[t].pc = "returned"
        /\ frame[t].num_chars_to_modify = 3
        /\ Len(frame[t].result) = Len(frame[t].text.chars) + 3

\* C2: a call of add_char_noise on a text (the empty one included) whose
\* tier or language is unrecognized fails with ValueError, before any
\* random draw, and returns no string.
C2_InvalidArgumentRaises ==
    \A t \in Threads :
        LET f == frame[t]
        IN  (/\ TextFrame(f) /\ f.pc \notin {"idle", "entry"} /\ f.text.isstr
             /\ (~ValidTier(f) \/ ~ValidLanguage(f)))
            => (f.pc = "raised" /\ f.exc = "ValueError" /\ ~f.rng_used)

\* C3: with a valid tier and language and floor(tierFraction * n) = 0, the
\* call returns the text itself, character for character, with no draw.
C3_ZeroBudgetReturnsText ==
    \A t \in Threads :
        LET f == frame[t]
        IN  (/\ TextFrame(f) /\ f.pc \notin {"idle", "entry"} /\ f.text.isstr
             /\ ValidTier(f) /\ Budget(f) = 0
             /\ ValidLanguage(f))
            => (f.pc = "returned" /\ f.result = f.text.chars /\ ~f.rng_used)

\* "abcde" at tier low came back
C3_Witness ==
    \E t \in Threads :
        /\ TextFrame(frame[t]) /\ frame[t].pc = "returned"
        /\ frame[t].text.chars = <<"a", "b", "c", "d", "e">>
        /\ frame[t].noise_level = LOW
        /\ frame[t].result = <<"a", "b", "c", "d", "e">>

\* Swap is planned at i and another operation at i + 1
SwapThenOther(f, i) ==
    /\ i \in DOMAIN f.modifications /\ f.modifications[i] = "swap"
    /\ (i + 1) \in DOMAIN f.modifications /\ f.modifications[i + 1] # "swap"

\* the pair (i, i + 1) is in the output, exchanged
Exchanged(f, i) ==
    \E j \in 1..(Len(f.src_of) - 1) :
        /\ f.src_of[j] = i + 1 /\ f.src_of[j + 1] = i
        /\ f.new_text_list[j] = At(f.text.chars, i + 1)
        /\ f.new_text_list[j + 1] = At(f.text.chars, i)

\* the plan at i + 1 is dropped and the pair comes out exchanged
PlanAfterSwapDiscarded(f, i) ==
    /\ (i + 1) \notin DOMAIN f.applied
    /\ f.pc = "returned" => Exchanged(f, i)

\* C4 as stated: whenever Swap is planned at i and a different operation at
\* i + 1, the operation at i + 1 is never applied and the pair (i, i + 1)
\* is emitted exchanged.
C4_SwapPlannedWins ==
    \A t \in Threads :
        LET f == frame[t]
        IN  (TextFrame(f) /\ f.pc \in {"walk", "returned"})
            => \A i \in DOMAIN f.modifications :
                  SwapThenOther(f, i) => PlanAfterSwapDiscarded(f, i)

\* C4 amended: whenever Swap is planned at i and a different operation at
\* i + 1, and i is not itself consumed by a Swap applied at i - 1, the
\* operation at i + 1 is never applied and the pair is emitted exchanged.
C4_SwapAppliedWins ==
    \A t \in Threads :
        LET f == frame[t]
        IN  (TextFrame(f) /\ f.pc \in {"walk", "returned"})
            => \A i \in DOMAIN f.modifications :
                  (SwapThenOther(f, i) /\ i \notin f.processed_indices)
                  => PlanAfterSwapDiscarded(f, i)

\* a call returned after a Swap at i overrode a Delete planned at i + 1
C4_Witness ==
    \E t \in Threads :
        LET f == frame[t]
        IN  /\ TextFrame(f) /\ f.pc = "returned"
            /\ \E i \in DOMAIN f.modifications :
                  /\ SwapThenOther(f, i) /\ f.modifications[i + 1] = "delete"
                  /\ i \in DOMAIN f.applied /\ f.applied[i] = "swap"

\* Swap is planned at the final index of a non-empty text
SwapAtLast(f) ==
    /\ Len(f.text.chars) >= 1
    /\ (Len(f.text.chars) - 1) \in DOMAIN f.modifications
    /\ f.modifications[Len(f.text.chars) - 1] = "swap"

\* no subscript outside [0, n); once returned, text[n-1] was emitted once,
\* as the last character of the result
LastCharPreserved(f) ==
    LET n == Len(f.text.chars)
    IN  /\ f.read_idx \subseteq 0..(n - 1)
        /\ f.pc = "returned" =>
              /\ Len(f.result) >= 1
              /\ f.result[Len(f.result)] = At(f.text.chars, n - 1)
              /\ f.src_of[Len(f.src_of)] = n - 1
              /\ Cardinality({j \in 1..Len(f.src_of) : f.src_of[j] = n - 1}) = 1

\* C5 as stated: whenever the plan assigns Swap to the final index, the
\* walk reads no index outside [0, n) and text[n-1] is emitted once, as the
\* last character of the result.
C5_SwapPlannedAtLast ==
    \A t \in Threads :
        LET f == frame[t]
        IN  (TextFrame(f) /\ f.pc \in {"walk", "returned"} /\ SwapAtLast(f))
            => LastCharPreserved(f)

\* C5 amended: whenever the plan assigns Swap to the final index n - 1 and
\* n - 1 is not consumed by a Swap applied at n - 2, the walk reads no
\* index outside [0, n) and text[n-1] is emitted once, as the last
\* character of the result.
C5_SwapReachedAtLast ==
    \A t \in Threads :
        LET f == frame[t]
        IN  (/\ TextFrame(f) /\ f.pc \in {"walk", "returned"} /\ SwapAtLast(f)
             /\ (Len(f.text.chars) - 1) \notin f.processed_indices)
            => LastCharPreserved(f)

\* a call returned after the Swap planned at the final index fell back
C5_Witness ==
    \E t \in Threads :
        LET f == frame[t]
            n == Len(f.text.chars)
        IN  /\ TextFrame(f) /\ f.pc = "returned" /\ SwapAtLast(f)
            /\ (n - 1) \in DOMAIN f.applied /\ f.applied[n - 1] = "swap_fallback"

RegisteredTiers == {LOW, MEDIUM, HIGH}

\* the validation step of a call: from frame f (arguments bound) to frame g
ValidationStep(f, g) == f.pc = "entry" /\ g.pc # "entry"

\* add_char_noise resolves the tier name as its lowercase form
TextTierFolded(f, g) ==
    (/\ TextFrame(f) /\ f.text.isstr /\ Len(f.text.chars) > 0
     /\ Lower(f.noise_level) \in RegisteredTiers /\ ValidLanguage(f))
    => /\ g.pc # "raised"
       /\ g.percentage = InitNoiseLevelPercentages[Lower(f.noise_level)]

\* an image operation whose image loaded resolves the tier name as its
\* lowercase form
ImageTierFolded(f, g) ==
    /\ (/\ f.fn = "apply_gaussian_blur" /\ g.img # "none"
        /\ Lower(f.blur_level) \in RegisteredTiers)
       => (g.pc # "raised" /\ g.sigma = BlurSigma(Lower(f.blur_level)))
    /\ (/\ f.fn = "apply_occlusion" /\ g.img # "none"
        /\ Lower(f.occlusion_level) \in RegisteredTiers)
       => (g.pc # "raised" /\ g.ratio = OcclusionRatio(Lower(f.occlusion_level)))

\* an image operation whose image loaded accepts exactly the lowercase names
ImageTierExact(f, g) ==
    /\ (f.fn = "apply_gaussian_blur" /\ g.img # "none")
       => IF f.blur_level \in RegisteredTiers
          THEN g.pc # "raised" /\ g.sigma = BlurSigma(f.blur_level)
          ELSE g.pc = "raised" /\ g.exc = "ValueError"
    /\ (f.fn = "apply_occlusion" /\ g.img # "none")
       => IF f.occlusion_level \in RegisteredTiers
          THEN g.pc # "raised" /\ g.ratio = OcclusionRatio(f.occlusion_level)
          ELSE g.pc = "raised" /\ g.exc = "ValueError"

\* C6 as stated: in add_char_noise, apply_gaussian_blur and apply_occlusion
\* a tier name that differs from "low", "medium" or "high" only in letter
\* case resolves to the parameter of the lowercase name and raises nothing.
C6_TierCaseInsensitiveEverywhere ==
    [][\A t \in Threads :
          ValidationStep(frame[t], frame'[t])
          => (TextTierFolded(frame[t], frame'[t]) /\ ImageTierFolded(frame[t], frame'[t]))]_vars

\* C6 amended: tier names are case-insensitive in add_char_noise only;
\* apply_gaussian_blur and apply_occlusion accept exactly "low", "medium"
\* and "high" and raise ValueError for any other spelling, case variants
\* included.
C6_TierCaseInsensitiveInTextOnly ==
    [][\A t \in Threads :
          ValidationStep(frame[t], frame'[t])
          => (TextTierFolded(frame[t], frame'[t]) /\ ImageTierExact(frame[t], frame'[t]))]_vars

\* apply_gaussian_blur loaded its image and rejected the tier name "High"
C6_Witness ==
    \E t \in Threads :
        /\ frame[t].fn = "apply_gaussian_blur" /\ frame[t].pc = "raised"
        /\ frame[t].exc = "ValueError" /\ frame[t].img # "none"
        /\ frame[t].blur_level = <<"H", "i", "g", "h">>

OcclusionFrame(f) == f.fn = "apply_occlusion"

\* C7: the rectangle apply_occlusion draws lies within [0,W) x [0,H): its
\* top-left corner is in [0, W - patch_w] x [0, H - patch_h] and no corner
\* coordinate handed to cv.rectangle is at or beyond W or H.
C7_PatchWithinImage ==
    \A t \in Threads :
        LET f == frame[t]
        IN  (OcclusionFrame(f) /\ f.pc \in {"draw", "returned"})
            => /\ 0 <= f.start_x /\ f.start_x <= f.img_width - f.patch_w
               /\ 0 <= f.start_y /\ f.start_y <= f.img_height - f.patch_h
               /\ f.end_x < f.img_width
               /\ f.end_y < f.img_height

\* the patch_h x patch_w rectangle at the chosen offset
PatchRegion(f) ==
    {p \in Pixels(f.img_height, f.img_width) :
        /\ f.start_y <= p[1] /\ p[1] < f.start_y + f.patch_h
        /\ f.start_x <= p[2] /\ p[2] < f.start_x + f.patch_w}

\* C8: the array apply_occlusion returns has the shape of its input, the
\* pixels it overwrote are exactly the patch_h x patch_w rectangle at the
\* chosen offset, with patch sides max(1, floor(sqrt(ratio) * side)), and
\* every pixel outside that rectangle keeps its input value.
C8_OnlyPatchOverwritten ==
    \A t \in Threads :
        LET f == frame[t]
        IN  (OcclusionFrame(f) /\ f.pc = "returned" /\ f.img_input.kind = "ndarray")
            => /\ heap[t][f.returned_obj].shape = heap[t]["input"].shape
               /\ f.patch_h = Max(1, ScaledSide(f.ratio, f.img_height))
               /\ f.patch_w = Max(1, ScaledSide(f.ratio, f.img_width))
               /\ f.written = PatchRegion(f)
               /\ \A p \in Pixels(f.img_height, f.img_width) \ PatchRegion(f) :
                     heap[t][f.returned_obj].px[p] = heap[t]["input"].px[p]

ImageFunctions == {"apply_gaussian_blur", "apply_occlusion"}

\* C9: apply_gaussian_blur and apply_occlusion never change the caller's
\* array, whether they return or raise, and the array they return is
\* another object than the caller's.
C9_InputUntouched ==
    [][\A t \in Threads :
          /\ ("input" \in DOMAIN heap[t] /\ "input" \in DOMAIN heap'[t])
             => heap'[t]["input"] = heap[t]["input"]
          /\ (frame'[t].fn \in ImageFunctions /\ frame'[t].pc = "returned")
             => frame'[t].returned_obj # "input"]_vars

\* apply_occlusion returned an array that differs from the caller's array
C9_Witness ==
    \E t \in Threads :
        /\ OcclusionFrame(frame[t]) /\ frame[t].pc = "returned"
        /\ "input" \in DOMAIN heap[t]
        /\ heap[t][frame[t].returned_obj].px # heap[t]["input"].px

FaultStep(f, g) == TextFrame(f) /\ f.pc = "walk" /\ g.warnings = f.warnings + 1

\* C11: when the operation planned at index i raises at any of its
\* statements, the call does not abort: the walk emits the original
\* character text[i] for that index and nothing else, and goes on at i + 1.
C11_FaultEmitsOriginalOnly ==
    [][\A t \in Threads :
          FaultStep(frame[t], frame'[t])
          => /\ frame'[t].pc = "walk"
             /\ frame'[t].i = frame[t].i + 1
             /\ frame'[t].new_text_list =
                   Append(frame[t].new_text_list, At(frame[t].text.chars, frame[t].i))]_vars

\* the number of characters of the output that come from index j
EmitCount(f, j) == Cardinality({p \in 1..Len(f.src_of) : f.src_of[p] = j})

\* the indices at which operation op was applied
AppliedAt(f, op) == {j \in DOMAIN f.applied : f.applied[j] = op}

\* C12: in the walk every index before the position of the loop was
\* visited exactly once (as a position, or as the neighbour an applied Swap
\* consumed) and no other index was visited; no operation is applied at an
\* index the Swap applied at the preceding index consumed; and when the call
\* returns, the character of every index is in the output exactly once, or
\* not at all when a Delete or a Substitute was applied at it, and the result
\* has n - (applied Deletes) + (applied Inserts) characters.  The calls are
\* those that enter the walk, that is, whose budget is positive.
C12_WalkConservation ==
    \A t \in Threads :
        LET f == frame[t]
            n == Len(f.text.chars)
        IN  (TextFrame(f) /\ f.pc \in {"walk", "returned"} /\ f.num_chars_to_modify > 0)
            => /\ \A j \in 0..(n - 1) : f.visits[j] = (IF j < f.i THEN 1 ELSE 0)
               /\ \A j \in DOMAIN f.applied : (j - 1) \notin AppliedAt(f, "swap")
               /\ f.pc = "returned" =>
                     /\ \A j \in 0..(n - 1) :
                           EmitCount(f, j) =
                              (IF j \in AppliedAt(f, "delete") \cup AppliedAt(f, "substitute")
                               THEN 0 ELSE 1)
                     /\ Len(f.result) = n - Cardinality(AppliedAt(f, "delete"))
                                           + Cardinality(AppliedAt(f, "insert"))

\* a call returned after it applied a Delete, an Insert and a Swap
C12_Witness ==
    \E t \in Threads :
        /\ TextFrame(frame[t]) /\ frame[t].pc = "returned"
        /\ AppliedAt(frame[t], "delete") # {}
        /\ AppliedAt(frame[t], "insert") # {}
        /\ AppliedAt(frame[t], "swap") # {}

====
